---------------------------- MODULE Spec2Model ----------------------------
(***************************************************************************)
(* Model of doxdox-parser-dox (src/index.js): the four string formatters,  *)
(* the linkable-object index pass, the per-record entity construction, the *)
(* emptiness filter and the final sort.                                    *)
(*                                                                         *)
(* A JavaScript string is modelled as the sequence of its UTF-16 code      *)
(* units (natural numbers), so that regular-expression replacement,        *)
(* lower-casing, escaping to numeric character references and the          *)
(* relational comparison of strings are computed the way the code computes *)
(* them.  Each literal below carries its text in a comment.                *)
(***************************************************************************)
EXTENDS Integers, Sequences, FiniteSets, TLC

VARIABLES
    comments,         \* the records returned by dox.parseComments (the input batch)
    filename,         \* second argument of parser()
    methods,          \* `methods`: the records that survive .filter(!ignore)
    linkableObjects,  \* `linkableObjects`: display name -> uid
    mapped,           \* the `params` objects built so far by methods.map
    out,              \* the array being filtered / sorted / returned
    pc,               \* position inside parser()
    i,                \* index of the next record of the running pass
    content,          \* argument of a formatter applied on its own
    applied,          \* the formatter applied to `content`, its result, and the result of applying it again
    tagList,          \* a tag sequence whose `params` display string is built on its own
    paramsOut         \* the `params` display string built from tagList

vars == <<comments, filename, methods, linkableObjects, mapped, out, pc, i,
          content, applied, tagList, paramsOut>>

parserVars == <<comments, filename, methods, linkableObjects, mapped, out, pc, i>>
formatVars == <<content, applied>>
paramsVars == <<tagList, paramsOut>>

---------------------------------------------------------------------------
(* Bounds of the model *)

MaxBatch == 3      \* records per input batch
MaxPieces == 3     \* fragments concatenated into a formatter argument
MaxTags == 4       \* tags of a record whose params string is built on its own

---------------------------------------------------------------------------
(* String literals of the program *)

ModuleExportsDot == <<109, 111, 100, 117, 108, 101, 46, 101, 120, 112, 111, 114, 116, 115, 46>>   \* 'module.exports.'
DotPrototype == <<46, 112, 114, 111, 116, 111, 116, 121, 112, 101>>   \* '.prototype'
EmptyParens == <<40, 41>>   \* '()'
FunctionPrefix == <<123, 70, 117, 110, 99, 116, 105, 111, 110, 125, 32>>   \* '{Function} '
TypeCallback == <<99, 97, 108, 108, 98, 97, 99, 107>>   \* 'callback'
TypeTypedef == <<116, 121, 112, 101, 100, 101, 102>>   \* 'typedef'
TypeParam == <<112, 97, 114, 97, 109>>   \* 'param'
TypeProperty == <<112, 114, 111, 112, 101, 114, 116, 121>>   \* 'property'
TypeReturn == <<114, 101, 116, 117, 114, 110>>   \* 'return'
TypeReturns == <<114, 101, 116, 117, 114, 110, 115>>   \* 'returns'
TypeExample == <<101, 120, 97, 109, 112, 108, 101>>   \* 'example'
TypeMemberof == <<109, 101, 109, 98, 101, 114, 111, 102>>   \* 'memberof'
TypeDeclaration == <<100, 101, 99, 108, 97, 114, 97, 116, 105, 111, 110>>   \* 'declaration'
AnchorOpen == <<60, 97, 32, 104, 114, 101, 102, 61, 34, 35>>   \* '<a href="#'
AnchorMid == <<34, 62>>   \* '">'
AnchorClose == <<60, 47, 97, 62>>   \* '</a>'
CharRefOpen == <<38, 35>>   \* '&#'
CharRefClose == <<59>>   \* ';'
CommaSpace == <<44, 32>>   \* ', '
CloseOpenBracket == <<93, 44, 32, 91>>   \* '], ['
CommaOpenBracket == <<44, 32, 91>>   \* ', ['
OpenBracketComma == <<91, 44, 32>>   \* '[, '
Hyphen == <<45>>   \* '-'
Dot == <<46>>   \* '.'
Hash == <<35>>   \* '#'
EmptyString == <<>>   \* ''

(* The value of a property that is absent (JavaScript `undefined`); no     *)
(* string is equal to it.                                                  *)
Undefined == <<0 - 1>>

(* Properties every object literal inherits from Object.prototype, with    *)
(* the text a template literal renders for them.  `linkableObjects` is     *)
(* created as `{}` (line 98), so a lookup by an inherited name finds       *)
(* these.  (Object.prototype has more members; three are modelled.)        *)
KeyValueOf == <<118, 97, 108, 117, 101, 79, 102>>   \* 'valueOf'
NativeValueOf == <<102, 117, 110, 99, 116, 105, 111, 110, 32, 118, 97, 108, 117, 101, 79, 102, 40, 41, 32, 123, 32, 91, 110, 97, 116, 105, 118, 101, 32, 99, 111, 100, 101, 93, 32, 125>>   \* 'function valueOf() { [native code] }'
KeyToString == <<116, 111, 83, 116, 114, 105, 110, 103>>   \* 'toString'
NativeToString == <<102, 117, 110, 99, 116, 105, 111, 110, 32, 116, 111, 83, 116, 114, 105, 110, 103, 40, 41, 32, 123, 32, 91, 110, 97, 116, 105, 118, 101, 32, 99, 111, 100, 101, 93, 32, 125>>   \* 'function toString() { [native code] }'
KeyConstructor == <<99, 111, 110, 115, 116, 114, 117, 99, 116, 111, 114>>   \* 'constructor'
NativeObject == <<102, 117, 110, 99, 116, 105, 111, 110, 32, 79, 98, 106, 101, 99, 116, 40, 41, 32, 123, 32, 91, 110, 97, 116, 105, 118, 101, 32, 99, 111, 100, 101, 93, 32, 125>>   \* 'function Object() { [native code] }'

ObjectPrototype ==
    [k \in {KeyValueOf, KeyToString, KeyConstructor} |->
        IF k = KeyValueOf THEN NativeValueOf
        ELSE IF k = KeyToString THEN NativeToString
        ELSE NativeObject]

---------------------------------------------------------------------------
(* String primitives *)

\* s.startsWith(p): the pattern p matches at the start of s
StartsWith(s, p) == Len(s) >= Len(p) /\ SubSeq(s, 1, Len(p)) = p

\* s with its first n code units removed
Drop(s, n) == SubSeq(s, n + 1, Len(s))

\* whether the literal p occurs somewhere in s
Contains(s, p) == \E k \in 0..(Len(s) - Len(p)) : SubSeq(s, k + 1, k + Len(p)) = p

RECURSIVE ReplaceAll(_, _, _)
\* s.replace(/p/g, r) for a literal, non-empty pattern p: left to right,
\* non-overlapping, the replacement text is not rescanned
ReplaceAll(s, p, r) ==
    IF s = <<>> THEN <<>>
    ELSE IF StartsWith(s, p) THEN r \o ReplaceAll(Drop(s, Len(p)), p, r)
    ELSE <<Head(s)>> \o ReplaceAll(Tail(s), p, r)

RECURSIVE ReplaceFirst(_, _, _)
\* s.replace(p, r) with a string pattern p: only the first occurrence
ReplaceFirst(s, p, r) ==
    IF s = <<>> THEN <<>>
    ELSE IF StartsWith(s, p) THEN r \o Drop(s, Len(p))
    ELSE <<Head(s)>> \o ReplaceFirst(Tail(s), p, r)

RECURSIVE Join(_, _)
\* array.join(sep)
Join(strings, sep) ==
    IF strings = <<>> THEN <<>>
    ELSE IF Len(strings) = 1 THEN strings[1]
    ELSE strings[1] \o sep \o Join(Tail(strings), sep)

RECURSIVE StringGreater(_, _)
\* a > b on two strings: lexicographic on code units
StringGreater(a, b) ==
    IF a = <<>> THEN FALSE
    ELSE IF b = <<>> THEN TRUE
    ELSE IF Head(a) # Head(b) THEN Head(a) > Head(b)
    ELSE StringGreater(Tail(a), Tail(b))

RECURSIVE Decimal(_)
\* the decimal digits of a code unit, as '&#' + i.charCodeAt(0) + ';' renders them
Decimal(n) ==
    IF n < 10 THEN <<48 + n>>
    ELSE Decimal(n \div 10) \o <<48 + (n % 10)>>

---------------------------------------------------------------------------
(* 4.1 String normalizers *)

RECURSIVE StripNameParts(_)
\* .replace(/module\.exports\.|\.prototype|\(\)/gu, '')
StripNameParts(s) ==
    IF s = <<>> THEN <<>>
    ELSE IF StartsWith(s, ModuleExportsDot) THEN StripNameParts(Drop(s, Len(ModuleExportsDot)))
    ELSE IF StartsWith(s, DotPrototype) THEN StripNameParts(Drop(s, Len(DotPrototype)))
    ELSE IF StartsWith(s, EmptyParens) THEN StripNameParts(Drop(s, Len(EmptyParens)))
    ELSE <<Head(s)>> \o StripNameParts(Tail(s))

\* formatStringForName(content, type = '')
formatStringForName(c, type) ==
    LET name == StripNameParts(c)
    IN  IF type = TypeCallback THEN FunctionPrefix \o name ELSE name

\* .replace(/\[|\]/gu, '')      ('[' is 91, ']' is 93)
StripBrackets(s) == SelectSeq(s, LAMBDA ch : ch # 91 /\ ch # 93)

\* formatStringForParam(content)
formatStringForParam(c) == StripBrackets(c)

\* a character of the class [\w\.]: 0-9, A-Z, a-z, '_' and '.'
IsWordOrDot(ch) == ch \in (48..57) \cup (65..90) \cup (97..122) \cup {95, 46}

\* .toLowerCase(), on the code units the model's inputs are made of
ToLowerCase(s) == [k \in 1..Len(s) |-> IF s[k] \in 65..90 THEN s[k] + 32 ELSE s[k]]

RECURSIVE SkipNonWord(_)
\* the rest of s after its leading run of characters outside [\w\.]
SkipNonWord(s) ==
    IF s = <<>> \/ IsWordOrDot(Head(s)) THEN s ELSE SkipNonWord(Tail(s))

RECURSIVE HyphenateRuns(_)
\* .replace(/[^\w\.]+/gu, '-')
HyphenateRuns(s) ==
    IF s = <<>> THEN <<>>
    ELSE IF IsWordOrDot(Head(s)) THEN <<Head(s)>> \o HyphenateRuns(Tail(s))
    ELSE Hyphen \o HyphenateRuns(SkipNonWord(s))

\* .replace(/^-|-$/gu, ''): one leading and one trailing hyphen
StripEdgeHyphens(s) ==
    LET a == IF s # <<>> /\ Head(s) = 45 THEN Tail(s) ELSE s
    IN  IF a # <<>> /\ a[Len(a)] = 45 THEN SubSeq(a, 1, Len(a) - 1) ELSE a

\* a faulty variant of formatStringForUID: the two replacements in the other order
formatStringForUIDEdgesFirst(c) == HyphenateRuns(StripEdgeHyphens(ToLowerCase(c)))

\* formatStringForUID(content)
formatStringForUID(c) == StripEdgeHyphens(HyphenateRuns(ToLowerCase(c)))

\* a character of the class [\u00A0-\u9999<>\&]: 160..39321, '<' 60, '>' 62, '&' 38
\* (the i flag adds no code unit below 160 to the class)
IsEscaped(ch) == ch \in {60, 62, 38} \/ (ch >= 160 /\ ch <= 39321)

RECURSIVE EscapeMarkup(_)
\* .replace(/[\u00A0-\u9999<>\&]/gim, i => '&#' + i.charCodeAt(0) + ';')
EscapeMarkup(s) ==
    IF s = <<>> THEN <<>>
    ELSE IF IsEscaped(Head(s))
         THEN CharRefOpen \o Decimal(Head(s)) \o CharRefClose \o EscapeMarkup(Tail(s))
         ELSE <<Head(s)>> \o EscapeMarkup(Tail(s))

\* obj[key] on an object literal: an own property, else one inherited from
\* Object.prototype, else undefined
GetProperty(obj, key) ==
    IF key \in DOMAIN obj THEN obj[key]
    ELSE IF key \in DOMAIN ObjectPrototype THEN ObjectPrototype[key]
    ELSE Undefined

\* the truthiness of a property value: undefined and '' are falsy
Truthy(v) == v # Undefined /\ v # EmptyString

\* formatStringWithLinkable(content, linkableObjects = {})
formatStringWithLinkable(c, links) ==
    LET string == StripBrackets(c)
    IN  IF Truthy(GetProperty(links, string))
        THEN AnchorOpen \o GetProperty(links, string) \o AnchorMid \o string \o AnchorClose
        ELSE EscapeMarkup(string)

\* isCallbackOrTypedef(method)
isCallbackOrTypedef(method) ==
    /\ Len(method.tags) > 0
    /\ (method.tags[1].type = TypeTypedef \/ method.tags[1].type = TypeCallback)

---------------------------------------------------------------------------
(* Records *)

\* an object literal with no own property: `{}`
EmptyObject == [k \in {} |-> EmptyString]

\* obj[key] = value on an object literal
SetProperty(obj, key, value) ==
    [k \in (DOMAIN obj) \cup {key} |-> IF k = key THEN value ELSE obj[k]]

---------------------------------------------------------------------------
(* 4.2 Linkable-object index *)

\* .replace(/^\{[a-z]*\}\ /i, ''): a leading '{letters} ' annotation
StripTypeAnnotation(s) ==
    LET IsLetter(ch) == ch \in (65..90) \cup (97..122)
        close == IF \E k \in 2..Len(s) : s[k] = 125
                 THEN CHOOSE k \in 2..Len(s) : s[k] = 125 /\ \A j \in 2..(k - 1) : s[j] # 125
                 ELSE 0
    IN  IF /\ s # <<>>
           /\ Head(s) = 123
           /\ close > 0
           /\ \A j \in 2..(close - 1) : IsLetter(s[j])
           /\ Len(s) > close
           /\ s[close + 1] = 32
        THEN Drop(s, close + 1)
        ELSE s

\* the key under which a callback/typedef record is indexed (lines 114-115)
linkableName(method) ==
    StripTypeAnnotation(formatStringForName(method.tags[1].string, method.tags[1].type))

\* formatStringForUID(`${filename}-${string}`)
uidOf(fname, string) == formatStringForUID(fname \o Hyphen \o string)

\* the body of the forEach callback (lines 108-119) for one record
addLinkable(links, method, fname) ==
    IF isCallbackOrTypedef(method)
    THEN SetProperty(links, linkableName(method), uidOf(fname, method.tags[1].string))
    ELSE links

\* a faulty variant of forEachDone: the pass stops after its first record
forEachDoneAfterFirst(k, ms) == k > 1 \/ k > Len(ms)

\* methods.forEach has visited every record
forEachDone(k, ms) == k > Len(ms)

---------------------------------------------------------------------------
(* 4.3 Entity construction *)

\* a faulty variant of isEmpty: a record counts as empty only when it is neither a
\* code construct nor a callback/typedef
isEmptyOnlyWhenUnclassified(method) ==
    method.ctx = <<>> /\ ~isCallbackOrTypedef(method)

\* 'empty': !method.description.full && !method.tags.length   (line 126)
isEmpty(method) == method.description = EmptyString /\ Len(method.tags) = 0

\* the 'params' display string (lines 128-143)
paramsString(tags) ==
    LET kept == SelectSeq(tags, LAMBDA tag : tag.type = TypeParam /\ ~Contains(tag.name, Dot))
        shown(tag) == IF tag.optional
                      THEN <<91>> \o formatStringForParam(tag.name) \o <<93>>
                      ELSE formatStringForParam(tag.name)
        joined == Join([k \in 1..Len(kept) |-> shown(kept[k])], CommaSpace)
    IN  ReplaceFirst(ReplaceAll(joined, CloseOpenBracket, CommaSpace),
                     CommaOpenBracket, OpenBracketComma)

\* the 'tags' object (lines 144-170)
tagGroups(tags, links) ==
    LET linked(types) == [t \in 1..Len(types) |-> formatStringWithLinkable(types[t], links)]
        paramDoc(tag) == [name |-> formatStringForParam(tag.name),
                          isOptional |-> tag.optional,
                          types |-> linked(tag.types),
                          description |-> tag.description]
        returnDoc(tag) == [types |-> linked(tag.types),
                           description |-> tag.description]
        examples == SelectSeq(tags, LAMBDA tag : tag.type = TypeExample)
        params == SelectSeq(tags, LAMBDA tag : tag.type = TypeParam)
        properties == SelectSeq(tags, LAMBDA tag : tag.type = TypeProperty)
        returns == SelectSeq(tags, LAMBDA tag : tag.type = TypeReturn \/ tag.type = TypeReturns)
    IN  [example |-> [k \in 1..Len(examples) |-> examples[k].string],
         param |-> [k \in 1..Len(params) |-> paramDoc(params[k])],
         property |-> [k \in 1..Len(properties) |-> paramDoc(properties[k])],
         return |-> [k \in 1..Len(returns) |-> returnDoc(returns[k])]]

\* the display name of a record with a ctx (lines 177-181)
ctxName(method) ==
    LET name == method.ctx[1].string
    IN  formatStringForName(
            IF Len(method.tags) > 0 /\ method.tags[1].type = TypeMemberof
            THEN ReplaceFirst(method.tags[1].string, Hash, EmptyString) \o Dot \o name
            ELSE name,
            EmptyString)

\* the value the map callback returns for one record (lines 122-199).
\* idx is the position of the record in the input batch; the code has no
\* such field, it is kept to tell which record an entity was built from.
buildParams(method, links, fname) ==
    LET params == [idx |-> method.idx,
                   isPrivate |-> method.isPrivate,
                   description |-> method.description,
                   empty |-> isEmpty(method),
                   line |-> method.line,
                   params |-> paramsString(method.tags),
                   tags |-> tagGroups(method.tags, links),
                   uid |-> Undefined,
                   type |-> Undefined,
                   name |-> Undefined,
                   notFunction |-> FALSE,
                   toBottom |-> FALSE]
    IN  IF method.ctx # <<>>
        THEN [params EXCEPT !.uid = uidOf(fname, method.ctx[1].string),
                            !.type = method.ctx[1].type,
                            !.name = ctxName(method),
                            !.notFunction = (method.ctx[1].type = TypeDeclaration)]
        ELSE IF isCallbackOrTypedef(method)
        THEN [params EXCEPT !.uid = uidOf(fname, method.tags[1].string),
                            !.type = method.tags[1].type,
                            !.name = formatStringForName(method.tags[1].string, method.tags[1].type),
                            !.toBottom = TRUE,
                            !.notFunction = (method.tags[1].type = TypeTypedef),
                            !.params = IF method.tags[1].type = TypeTypedef
                                       THEN EmptyString ELSE @]
        ELSE params

\* the record after the map callback has run on it: the last branch
\* (line 196) assigns `empty` on the record itself, not on `params`
afterMap(method) ==
    IF method.ctx = <<>> /\ ~isCallbackOrTypedef(method)
    THEN [method EXCEPT !.empty = TRUE]
    ELSE method

---------------------------------------------------------------------------
(* 4.4 Filter and sort *)

\* a faulty variant of compare: the toBottom entities are sent to the front
compareBottomFirst(a, b) ==
    IF a.toBottom /\ b.toBottom THEN (IF StringGreater(a.type, b.type) THEN 1 ELSE 0)
    ELSE IF a.toBottom THEN 0 - 1
    ELSE IF b.toBottom THEN 1
    ELSE a.line - b.line

\* the comparison function (lines 203-212), its result converted to a
\* number as Array.prototype.sort does: true is 1, false is 0
compare(a, b) ==
    IF a.toBottom /\ b.toBottom THEN (IF StringGreater(a.type, b.type) THEN 1 ELSE 0)
    ELSE IF a.toBottom THEN 1
    ELSE IF b.toBottom THEN 0 - 1
    ELSE a.line - b.line

(* The comparison function is not a consistent one (for a callback c and a *)
(* typedef t, compare(c, t) = 0 but compare(t, c) = 1), and for such a     *)
(* function the order Array.prototype.sort produces is left to the engine. *)
(* The two sorts Node.js has shipped for arrays this short are modelled:   *)
(* the insertion sort of V8 before 7.0, and the binary insertion sort that *)
(* V8's TimSort (7.0 and later) runs on an array of a single run.          *)

RECURSIVE insertFromRight(_, _)
\* legacy insertion: shift the elements that compare greater than element
insertFromRight(sorted, element) ==
    IF sorted = <<>> THEN <<element>>
    ELSE IF compare(sorted[Len(sorted)], element) > 0
         THEN Append(insertFromRight(SubSeq(sorted, 1, Len(sorted) - 1), element),
                     sorted[Len(sorted)])
         ELSE Append(sorted, element)

RECURSIVE insertionSort(_)
\* array.sort(compare) by V8's legacy InsertionSort
insertionSort(a) ==
    IF a = <<>> THEN <<>>
    ELSE insertFromRight(insertionSort(SubSeq(a, 1, Len(a) - 1)), a[Len(a)])

RECURSIVE runEnd(_, _, _)
\* the last index of the run that starts at 1 and has reached index k
runEnd(a, k, descending) ==
    IF k = Len(a) THEN k
    ELSE LET order == compare(a[k + 1], a[k])
         IN  IF (descending /\ order >= 0) \/ (~descending /\ order < 0)
             THEN k
             ELSE runEnd(a, k + 1, descending)

\* a reversed
reverse(a) == [k \in 1..Len(a) |-> a[Len(a) + 1 - k]]

RECURSIVE binarySearch(_, _, _, _)
\* where the pivot goes in a[left .. right-1]
binarySearch(a, pivot, left, right) ==
    IF left >= right THEN left
    ELSE LET mid == left + ((right - left) \div 2)
         IN  IF compare(pivot, a[mid]) < 0
             THEN binarySearch(a, pivot, left, mid)
             ELSE binarySearch(a, pivot, mid + 1, right)

RECURSIVE binaryInsertionSort(_, _)
\* a[1 .. start-1] is sorted; insert a[start], a[start+1], ...
binaryInsertionSort(a, start) ==
    IF start > Len(a) THEN a
    ELSE LET pivot == a[start]
             pos == binarySearch(a, pivot, 1, start)
         IN  binaryInsertionSort(
                 SubSeq(a, 1, pos - 1) \o <<pivot>> \o SubSeq(a, pos, start - 1)
                     \o SubSeq(a, start + 1, Len(a)),
                 start + 1)

\* array.sort(compare) by V8's TimSort, for an array shorter than one
\* minimum run: find the initial run, reverse it when strictly descending,
\* insert the rest
timSort(a) ==
    IF Len(a) < 2 THEN a
    ELSE LET descending == compare(a[2], a[1]) < 0
             run == runEnd(a, 2, descending)
             made == IF descending
                     THEN reverse(SubSeq(a, 1, run)) \o SubSeq(a, run + 1, Len(a))
                     ELSE a
         IN  binaryInsertionSort(made, run + 1)

---------------------------------------------------------------------------
(* Inputs *)

FileJs == <<102, 46, 106, 115>>   \* 'f.js'
Foo == <<102, 111, 111>>   \* 'foo'
Bar == <<98, 97, 114>>   \* 'bar'
Baz == <<98, 97, 122>>   \* 'baz'
Cb == <<67, 98>>   \* 'Cb'
ObjectOpt == <<123, 79, 98, 106, 101, 99, 116, 125, 32, 79, 112, 116>>   \* '{Object} Opt'
Opt == <<79, 112, 116>>   \* 'Opt'
NsHash == <<78, 115, 35>>   \* 'Ns#'
TypeMethod == <<109, 101, 116, 104, 111, 100>>   \* 'method'
TypeFunction == <<102, 117, 110, 99, 116, 105, 111, 110>>   \* 'function'
NameA == <<97>>   \* 'a'
NameOptB == <<91, 98, 93>>   \* '[b]'
NameDotted == <<111, 46, 112>>   \* 'o.p'
SomeText == <<100>>   \* 'd'

\* a Tag as dox produces it
Tag(type, string, name, optional, types) ==
    [type |-> type, string |-> string, name |-> name, optional |-> optional,
     types |-> types, description |-> EmptyString]

\* a ParsedComment as dox produces it; ctx is <<>> when the comment
\* precedes no code construct, else a one-element sequence
Comment(ignore, ctx, description, tags, line) ==
    [idx |-> 0, ignore |-> ignore, ctx |-> ctx, description |-> description,
     tags |-> tags, isPrivate |-> FALSE, line |-> line, empty |-> FALSE]

Ctx(type, string) == <<[type |-> type, string |-> string]>>

\* a method of a namespace, with a parameter of the callback type Cb
MethodRecord ==
    Comment(FALSE, Ctx(TypeMethod, Foo), SomeText,
            <<Tag(TypeMemberof, NsHash, EmptyString, FALSE, <<>>),
              Tag(TypeParam, EmptyString, NameA, FALSE, <<Cb>>)>>, 10)
\* a declaration with neither description nor tags
BareDeclaration == Comment(FALSE, Ctx(TypeDeclaration, Bar), EmptyString, <<>>, 3)
\* a comment with a description that precedes no code and has no tags
OrphanDescription == Comment(FALSE, <<>>, SomeText, <<>>, 7)
\* a comment with tags that precedes no code and declares nothing
OrphanTags ==
    Comment(FALSE, <<>>, EmptyString, <<Tag(TypeReturn, EmptyString, EmptyString, FALSE, <<Opt>>)>>, 6)
\* @callback Cb
CallbackRecord ==
    Comment(FALSE, <<>>, EmptyString, <<Tag(TypeCallback, Cb, EmptyString, FALSE, <<>>)>>, 5)
\* @typedef {Object} Opt, with an optional property of type Cb
TypedefRecord ==
    Comment(FALSE, <<>>, EmptyString,
            <<Tag(TypeTypedef, ObjectOpt, EmptyString, FALSE, <<>>),
              Tag(TypeProperty, EmptyString, NameOptB, TRUE, <<Cb>>)>>, 2)
\* @typedef Opt on a comment that also precedes a function
TypedefOnFunction ==
    Comment(FALSE, Ctx(TypeFunction, Baz), EmptyString,
            <<Tag(TypeTypedef, Opt, EmptyString, FALSE, <<>>)>>, 8)
\* a comment with nothing in it
BlankRecord == Comment(FALSE, <<>>, EmptyString, <<>>, 1)
\* a comment marked @ignore
IgnoredRecord == Comment(TRUE, Ctx(TypeFunction, Foo), SomeText, <<>>, 4)

Records == {MethodRecord, BareDeclaration, OrphanDescription, OrphanTags, CallbackRecord,
            TypedefRecord, TypedefOnFunction, BlankRecord, IgnoredRecord}

Batches == UNION {[1..n -> Records] : n \in 0..MaxBatch}

\* the batch with every record given its position
Numbered(batch) == [k \in 1..Len(batch) |-> [batch[k] EXCEPT !.idx = k]]

RECURSIVE Concat(_)
Concat(pieces) == IF pieces = <<>> THEN <<>> ELSE Head(pieces) \o Concat(Tail(pieces))

\* fragments of formatter arguments: the stripped name parts, '(' ')' '[' ']',
\* '-' ' ' '.' '_' '<' '>' '&', e-acute (233), an inherited property name and a
\* declared callback name
Pieces == {ModuleExportsDot, DotPrototype, EmptyParens, <<40>>, <<41>>, <<91>>, <<93>>,
           Hyphen, <<32>>, Dot, <<95>>, <<60>>, <<62>>, <<38>>, <<233>>, KeyValueOf, Cb}

FormatInputs == {Concat(ps) : ps \in UNION {[1..n -> Pieces] : n \in 0..MaxPieces}}

LinkIndexes == {EmptyObject, SetProperty(EmptyObject, Cb, uidOf(FileJs, Cb))}

ParamTags == {Tag(TypeParam, EmptyString, NameA, FALSE, <<>>),
              Tag(TypeParam, EmptyString, NameOptB, TRUE, <<>>),
              Tag(TypeParam, EmptyString, NameDotted, FALSE, <<>>),
              Tag(TypeReturn, EmptyString, EmptyString, FALSE, <<>>)}

TagLists == UNION {[1..n -> ParamTags] : n \in 0..MaxTags}

NotApplied == [fn |-> "none", links |-> EmptyObject, once |-> Undefined, twice |-> Undefined]

---------------------------------------------------------------------------
(* parser(content, filename) *)

ParserIdle ==
    /\ comments = <<>> /\ filename = EmptyString /\ methods = <<>>
    /\ linkableObjects = EmptyObject /\ mapped = <<>> /\ out = <<>>
    /\ pc = "idle" /\ i = 0
FormatIdle == content = EmptyString /\ applied = NotApplied
ParamsIdle == tagList = <<>> /\ paramsOut = Undefined

Init ==
    /\ \E batch \in Batches : comments = Numbered(batch)
    /\ filename = FileJs
    /\ methods = <<>>
    /\ linkableObjects = EmptyObject
    /\ mapped = <<>>
    /\ out = <<>>
    /\ pc = "parse"
    /\ i = 0
    /\ FormatIdle
    /\ ParamsIdle

\* lines 100-105: .filter(method => !method.ignore)
FilterIgnored ==
    /\ pc = "parse"
    /\ methods' = SelectSeq(comments, LAMBDA method : ~method.ignore)
    /\ pc' = "forEach"
    /\ i' = 1
    /\ UNCHANGED <<comments, filename, linkableObjects, mapped, out, formatVars, paramsVars>>

\* lines 108-119: one call of the forEach callback
BuildLinkable ==
    /\ pc = "forEach"
    /\ ~forEachDone(i, methods)
    /\ linkableObjects' = addLinkable(linkableObjects, methods[i], filename)
    /\ i' = i + 1
    /\ UNCHANGED <<comments, filename, methods, mapped, out, pc, formatVars, paramsVars>>

\* line 119 to line 122: the forEach is over, the map begins
StartMap ==
    /\ pc = "forEach"
    /\ forEachDone(i, methods)
    /\ pc' = "map"
    /\ i' = 1
    /\ UNCHANGED <<comments, filename, methods, linkableObjects, mapped, out, formatVars, paramsVars>>

\* lines 122-201: one call of the map callback
MapMethod ==
    /\ pc = "map"
    /\ i <= Len(methods)
    /\ mapped' = Append(mapped, buildParams(methods[i], linkableObjects, filename))
    /\ methods' = [methods EXCEPT ![i] = afterMap(@)]
    /\ i' = i + 1
    /\ UNCHANGED <<comments, filename, linkableObjects, out, pc, formatVars, paramsVars>>

\* line 202: .filter(method => !method.empty), on the mapped objects
FilterEmpty ==
    /\ pc = "map"
    /\ i > Len(methods)
    /\ out' = SelectSeq(mapped, LAMBDA params : ~params.empty)
    /\ pc' = "sort"
    /\ UNCHANGED <<comments, filename, methods, linkableObjects, mapped, i, formatVars, paramsVars>>

\* lines 203-212, on an engine that sorts short arrays by insertion
SortByInsertion ==
    /\ pc = "sort"
    /\ out' = insertionSort(out)
    /\ pc' = "done"
    /\ UNCHANGED <<comments, filename, methods, linkableObjects, mapped, i, formatVars, paramsVars>>

\* lines 203-212, on an engine that sorts by TimSort
SortByTimSort ==
    /\ pc = "sort"
    /\ out' = timSort(out)
    /\ pc' = "done"
    /\ UNCHANGED <<comments, filename, methods, linkableObjects, mapped, i, formatVars, paramsVars>>

Next ==
    \/ FilterIgnored
    \/ BuildLinkable
    \/ StartMap
    \/ MapMethod
    \/ FilterEmpty
    \/ SortByInsertion
    \/ SortByTimSort

Spec == Init /\ [][Next]_vars

---------------------------------------------------------------------------
(* The formatters applied on their own *)

InitFormat ==
    /\ ParserIdle
    /\ content \in FormatInputs
    /\ applied = NotApplied
    /\ ParamsIdle

Apply(fn, links, once, twice) ==
    /\ applied = NotApplied
    /\ applied' = [fn |-> fn, links |-> links, once |-> once, twice |-> twice]
    /\ UNCHANGED <<content, parserVars, paramsVars>>

ApplyName ==
    Apply("name", EmptyObject,
          formatStringForName(content, EmptyString),
          formatStringForName(formatStringForName(content, EmptyString), EmptyString))

ApplyNameCallback ==
    Apply("nameCallback", EmptyObject,
          formatStringForName(content, TypeCallback),
          formatStringForName(formatStringForName(content, TypeCallback), TypeCallback))

ApplyParam ==
    Apply("param", EmptyObject,
          formatStringForParam(content),
          formatStringForParam(formatStringForParam(content)))

ApplyUID ==
    Apply("uid", EmptyObject,
          formatStringForUID(content),
          formatStringForUID(formatStringForUID(content)))

ApplyLink ==
    \E links \in LinkIndexes :
        Apply("link", links,
              formatStringWithLinkable(content, links),
              formatStringWithLinkable(formatStringWithLinkable(content, links), links))

NextFormat ==
    \/ ApplyName
    \/ ApplyNameCallback
    \/ ApplyParam
    \/ ApplyUID
    \/ ApplyLink

SpecFormat == InitFormat /\ [][NextFormat]_vars

---------------------------------------------------------------------------
(* The params display string built on its own *)

InitParams ==
    /\ ParserIdle
    /\ FormatIdle
    /\ tagList \in TagLists
    /\ paramsOut = Undefined

BuildParamsString ==
    /\ paramsOut = Undefined
    /\ paramsOut' = paramsString(tagList)
    /\ UNCHANGED <<tagList, parserVars, formatVars>>

NextParams == BuildParamsString

SpecParams == InitParams /\ [][NextParams]_vars

---------------------------------------------------------------------------
(* Properties *)

\* the input record at position k has an entity in the returned array
Emitted(k) == \E e \in 1..Len(out) : out[e].idx = k

\* the first tag of a record is a typedef or a callback tag
DeclaresLinkable(record) ==
    /\ record.tags # <<>>
    /\ record.tags[1].type \in {TypeTypedef, TypeCallback}

\* the mapped objects the filter keeps, in the order the sort receives them
Kept == SelectSeq(mapped, LAMBDA params : ~params.empty)

\* C1: a record that is not ignored, has no ctx and whose first tag is
\* neither typedef nor callback (zero tags included) has no entity in the
\* output, whatever its description or tags.
C1_UnclassifiedRecordsOmitted ==
    pc = "done" =>
        \A k \in 1..Len(comments) :
            (/\ ~comments[k].ignore
             /\ comments[k].ctx = <<>>
             /\ ~DeclaresLinkable(comments[k])) => ~Emitted(k)

\* C2: a record whose description is empty and whose tag sequence is empty
\* has no entity in the output, with or without a ctx.
C2_EmptyRecordsOmitted ==
    pc = "done" =>
        \A k \in 1..Len(comments) :
            (comments[k].description = EmptyString /\ comments[k].tags = <<>>) => ~Emitted(k)

\* the parser has returned for a batch that holds a record with a ctx but
\* neither description nor tags, beside a record that is emitted
C2_Witness ==
    /\ pc = "done"
    /\ out # <<>>
    /\ \E k \in 1..Len(comments) :
        /\ ~comments[k].ignore
        /\ comments[k].ctx # <<>>
        /\ comments[k].description = EmptyString
        /\ comments[k].tags = <<>>

\* C3: in the output no toBottom entity precedes an entity that is not
\* toBottom, and the entities that are not toBottom are in ascending order
\* of line.
C3_BottomLastLinesAscending ==
    pc = "done" =>
        \A a \in 1..Len(out) : \A b \in 1..Len(out) :
            a < b =>
                /\ ~(out[a].toBottom /\ ~out[b].toBottom)
                /\ (~out[a].toBottom /\ ~out[b].toBottom) => out[a].line <= out[b].line

\* the sort has run on an array in which a toBottom entity came before an
\* ordinary one and two ordinary entities were in descending order of line
C3_Witness ==
    /\ pc = "done"
    /\ \E a \in 1..Len(Kept) : \E b \in 1..Len(Kept) :
        a < b /\ Kept[a].toBottom /\ ~Kept[b].toBottom
    /\ \E a \in 1..Len(Kept) : \E b \in 1..Len(Kept) :
        a < b /\ ~Kept[a].toBottom /\ ~Kept[b].toBottom /\ Kept[a].line > Kept[b].line

\* the text once formatted holds none of the substrings the name formatter strips
NothingLeftToStrip(s) ==
    ~Contains(s, ModuleExportsDot) /\ ~Contains(s, DotPrototype) /\ ~Contains(s, EmptyParens)

\* C4 as stated: each of the name formatter (default kind and callback
\* kind), the param formatter and the UID formatter gives, applied twice,
\* what it gives applied once.
C4_AllFormattersIdempotent ==
    applied.fn \in {"name", "nameCallback", "param", "uid"} => applied.twice = applied.once

\* C4 as amended: the param and UID formatters are idempotent; the name
\* formatter with the default kind is idempotent on a text whose formatted
\* form holds nothing left to strip; with the callback kind a second
\* application adds a second '{Function} ' prefix, so it never is.
C4_ParamAndUIDIdempotent ==
    /\ applied.fn \in {"param", "uid"} => applied.twice = applied.once
    /\ (applied.fn = "name" /\ NothingLeftToStrip(applied.once)) => applied.twice = applied.once
    /\ applied.fn = "nameCallback" =>
        /\ applied.twice # applied.once
        /\ StartsWith(applied.twice, FunctionPrefix \o FunctionPrefix)

\* the UID formatter has been applied to a text it changes into a
\* non-empty identifier
C4_Witness ==
    /\ applied.fn = "uid"
    /\ applied.once # content
    /\ applied.once # EmptyString
    /\ Contains(applied.once, Hyphen)

\* s holds no '<' and no '>', and every '&' in it opens a numeric
\* character reference '&#digits;'
NoRawMarkup(s) ==
    \A k \in 1..Len(s) :
        /\ s[k] \notin {60, 62}
        /\ s[k] = 38 =>
            /\ k + 3 <= Len(s)
            /\ s[k + 1] = 35
            /\ \E e \in (k + 3)..Len(s) :
                s[e] = 59 /\ \A j \in (k + 2)..(e - 1) : s[j] \in 48..57

\* C5: the link formatter returns a hyperlink to the mapped identifier
\* exactly when the bracket-stripped text is a key of the index; otherwise
\* it returns an escaped literal with no raw '<', '>' or '&', and never a
\* hyperlink.
C5_LinkExactlyForIndexKeys ==
    applied.fn = "link" =>
        LET key == SelectSeq(content, LAMBDA ch : ch \notin {91, 93})
        IN  IF key \in DOMAIN applied.links
            THEN applied.once = AnchorOpen \o applied.links[key] \o AnchorMid \o key \o AnchorClose
            ELSE ~StartsWith(applied.once, AnchorOpen) /\ NoRawMarkup(applied.once)

RECURSIVE IndexOfFirst(_, _, _)
\* the index after the callback/typedef records among the first n of a batch
IndexOfFirst(records, n, fname) ==
    IF n = 0 THEN EmptyObject
    ELSE addLinkable(IndexOfFirst(records, n - 1, fname), records[n], fname)

\* the <<raw type, resolved type>> pairs of the entity built from methods[k]
ResolvedTypes(k) ==
    LET pairs(tags, docs) ==
            UNION {{<<tags[j].types[t], docs[j].types[t]>> : t \in 1..Len(tags[j].types)} :
                      j \in 1..Len(tags)}
        ofType(types) == SelectSeq(methods[k].tags, LAMBDA tag : tag.type \in types)
    IN  pairs(ofType({TypeParam}), mapped[k].tags.param)
        \cup pairs(ofType({TypeProperty}), mapped[k].tags.property)
        \cup pairs(ofType({TypeReturn, TypeReturns}), mapped[k].tags.return)

\* C6: once the first entity is being built the index holds every
\* callback/typedef of the batch and is not modified any more; a type that
\* names a callback or typedef of the batch resolves to a hyperlink, the
\* same one wherever the declaring record stands.
C6_IndexCompleteBeforeResolution ==
    /\ pc \in {"map", "sort", "done"} =>
        linkableObjects = IndexOfFirst(methods, Len(methods), filename)
    /\ \A a \in 1..Len(mapped) : \A p \in ResolvedTypes(a) :
        /\ (\E k \in 1..Len(methods) :
                /\ DeclaresLinkable(methods[k])
                /\ linkableName(methods[k]) = StripBrackets(p[1]))
            => StartsWith(p[2], AnchorOpen)
        /\ \A b \in 1..Len(mapped) : \A q \in ResolvedTypes(b) :
            p[1] = q[1] => p[2] = q[2]

\* a record whose param type names a callback declared only later in the
\* batch has had that type resolved to a hyperlink
C6_Witness ==
    /\ pc = "done"
    /\ \E a \in 1..Len(methods) : \E b \in 1..Len(methods) :
        /\ a < b
        /\ DeclaresLinkable(methods[b])
        /\ \A k \in 1..a : ~DeclaresLinkable(methods[k])
        /\ \E p \in ResolvedTypes(a) :
            /\ linkableName(methods[b]) = StripBrackets(p[1])
            /\ StartsWith(p[2], AnchorOpen)

\* C7: the toBottom entities of the output are in ascending order of type,
\* so every callback precedes every typedef.
C7_BottomEntitiesInTypeOrder ==
    pc = "done" =>
        \A a \in 1..Len(out) : \A b \in 1..Len(out) :
            (a < b /\ out[a].toBottom /\ out[b].toBottom)
                => ~StringGreater(out[a].type, out[b].type)

\* C8: the params string holds no '], [' and no ', [', for any number
\* and arrangement of optional and required parameters.
C8_NoBracketBoundaryLeft ==
    paramsOut # Undefined =>
        /\ ~Contains(paramsOut, CloseOpenBracket)
        /\ ~Contains(paramsOut, CommaOpenBracket)

\* C9: running the parser leaves every input record as it was.
C9_InputRecordsUnchanged ==
    pc \in {"forEach", "map", "sort", "done"} =>
        methods = SelectSeq(comments, LAMBDA record : ~record.ignore)

\* C10: every identifier stored in the index is the uid of an entity of the
\* output.
C10_EveryLinkTargetEmitted ==
    pc = "done" =>
        \A key \in DOMAIN linkableObjects :
            \E e \in 1..Len(out) : out[e].uid = linkableObjects[key]

===========================================================================
